---------------------------- MODULE Spec2Model ----------------------------
(***************************************************************************)
(* Model of src/input.js: the gesture lifecycle classifier (inputHandler), *)
(* the sample enrichment engine (computeInputData), the session snapshot   *)
(* (simpleCloneInputData) and the geometry primitives.                     *)
(*                                                                         *)
(* Number representation.                                                  *)
(*  - clientX / clientY are integers counting HALF pixels, so that a raw   *)
(*    pointer can sit on a non-integer coordinate (c = 3 is 1.5 px).       *)
(*  - x / y of a center, deltaX, deltaY and timestamps are whole numbers   *)
(*    (Math.round always yields an integer pixel).                         *)
(*  - Math.sqrt(r) is represented by its radicand r, a quotient of two     *)
(*    square roots by the reduced fraction of the radicands, and           *)
(*    Math.atan2(y, x) by the reduced direction vector <<x, y>>.           *)
(*                                                                         *)
(* The input-source adapters and the Instance object are not part of       *)
(* input.js: the adapter actions follow the RawSample contract, one        *)
(* changed pointer per source event, and inst.session starts undefined.    *)
(***************************************************************************)
EXTENDS Integers, Sequences, FiniteSets, TLC

\* ------------------------------------------------------------- bounds ---
MaxPointers == 3
MaxCoord == 1
MaxTime == 1
MaxSessions == 2
MaxGrid == 10
MaxOrigin == 1
MaxLen == 3
MaxHalf == 1

\* ---------------------------------------------------------- constants ---
EVENT_START == 1
EVENT_MOVE == 2
EVENT_END == 4
EVENT_CANCEL == 8

DIRECTION_LEFT == "left"
DIRECTION_RIGHT == "right"
DIRECTION_UP == "up"
DIRECTION_DOWN == "down"
DIRECTION_NONE == ""

PROPS_XY == <<"x", "y">>
PROPS_CLIENT_XY == <<"clientX", "clientY">>

VARIABLES
    down,          \* adapter: the pointers currently on the surface
    time,          \* adapter: timestamp of the latest source event
    session,       \* inst.session
    created,       \* number of session objects allocated so far
    input,         \* the inputData object of the latest inputHandler call
    delivered,     \* the arguments inst.update received during that call
    error,         \* TRUE once a call has thrown
    multiSeen,     \* history: a sample with >= 2 pointers was seen since
                   \* the last sample with exactly 1 pointer of the gesture
    hadMultiple,   \* history: the gesture has had a sample with >= 2
                   \* pointers before the latest sample
    call           \* the latest call of a pure function on its own

vars == <<down, time, session, created, input, delivered, error,
          multiSeen, hadMultiple, call>>

gestureVars == <<down, time, session, created, input, delivered, error,
                 multiSeen, hadMultiple>>

\* ------------------------------------------------------ JS values ------
Undefined == [tag |-> "undefined"]
False == [tag |-> "false"]
NoInput == [tag |-> "none"]
NoCall == [fn |-> "none"]

\* JS truthiness of a session field: undefined and false are falsy,
\* an object is truthy.
Truthy(v) == v.tag = "object"

Abs(n) == IF n < 0 THEN -n ELSE n

Min(S) == CHOOSE m \in S : \A n \in S : m <= n

Max(S) == CHOOSE m \in S : \A n \in S : m >= n

RECURSIVE GCD(_, _)
GCD(a, b) == IF b = 0 THEN a ELSE GCD(b, a % b)

\* Math.round of the rational n / d (d > 0): floor(n/d + 1/2).
round(n, d) == (2 * n + d) \div (2 * d)

\* ------------------------------------------------ geometry primitives ---
\* getCenter taking the first and the last pointer for the extremes.
getCenterFirstLast(pointers) ==
    IF Len(pointers) = 1
    THEN [x |-> round(pointers[1].clientX, 2),
          y |-> round(pointers[1].clientY, 2)]
    ELSE LET first == pointers[1]
             last == pointers[Len(pointers)]
         IN  [x |-> round(first.clientX + last.clientX, 4),
              y |-> round(first.clientY + last.clientY, 4)]

\* getCenter: clientX/clientY come in half pixels, the result is in pixels.
getCenter(pointers) ==
    IF Len(pointers) = 1
    THEN [x |-> round(pointers[1].clientX, 2),
          y |-> round(pointers[1].clientY, 2)]
    ELSE LET xs == {pointers[i].clientX : i \in 1..Len(pointers)}
             ys == {pointers[i].clientY : i \in 1..Len(pointers)}
         IN  [x |-> round(Min(xs) + Max(xs), 4),
              y |-> round(Min(ys) + Max(ys), 4)]

\* getDirection with left and right exchanged.
getDirectionSwapped(p1, p2) ==
    LET x == p1.x - p2.x
        y == p1.y - p2.y
    IN  IF x = y THEN DIRECTION_NONE
        ELSE IF Abs(x) >= Abs(y)
             THEN (IF x > 0 THEN DIRECTION_RIGHT ELSE DIRECTION_LEFT)
             ELSE (IF y > 0 THEN DIRECTION_UP ELSE DIRECTION_DOWN)

getDirection(p1, p2) ==
    LET x == p1.x - p2.x
        y == p1.y - p2.y
    IN  IF x = y THEN DIRECTION_NONE
        ELSE IF Abs(x) >= Abs(y)
             THEN (IF x > 0 THEN DIRECTION_LEFT ELSE DIRECTION_RIGHT)
             ELSE (IF y > 0 THEN DIRECTION_UP ELSE DIRECTION_DOWN)

\* getDistance: the radicand x*x + y*y of the square root it returns.
getDistance(p1, p2, props) ==
    LET x == p2[props[1]] - p1[props[1]]
        y == p2[props[2]] - p1[props[2]]
    IN  (x * x) + (y * y)

\* getAngle: atan2(y, x) as the reduced vector <<x, y>>; atan2(0, 0) is 0,
\* the angle of <<1, 0>>.
getAngle(p1, p2, props) ==
    LET x == p2[props[1]] - p1[props[1]]
        y == p2[props[2]] - p1[props[2]]
        g == GCD(Abs(x), Abs(y))
    IN  IF g = 0 THEN <<1, 0>> ELSE <<x \div g, y \div g>>

\* The number 0 as a rotation, and the difference of two angles.
ZeroRotation == [minuend |-> <<1, 0>>, subtrahend |-> <<1, 0>>, zero |-> TRUE]

AngleDiff(a, b) ==
    IF a = b THEN ZeroRotation
    ELSE [minuend |-> a, subtrahend |-> b, zero |-> FALSE]

getRotation(start, end) ==
    AngleDiff(getAngle(end[2], end[1], PROPS_CLIENT_XY),
              getAngle(start[2], start[1], PROPS_CLIENT_XY))

\* Numbers that are quotients of square roots: sqrt(num) / sqrt(den).
\* den = 0 is a division by zero: NaN for 0/0, Infinity otherwise.
One == [num |-> 1, den |-> 1]
NaN == [num |-> 0, den |-> 0]
Infinity == [num |-> 1, den |-> 0]
Half == [num |-> 1, den |-> 4]
Two == [num |-> 4, den |-> 1]

Quotient(n, d) ==
    IF d = 0 THEN (IF n = 0 THEN NaN ELSE Infinity)
    ELSE LET g == GCD(n, d) IN [num |-> n \div g, den |-> d \div g]

IsFinite(q) == q.den # 0

\* getScale with the two pointer sets exchanged.
getScaleInverted(start, end) ==
    Quotient(getDistance(start[1], start[2], PROPS_CLIENT_XY),
             getDistance(end[1], end[2], PROPS_CLIENT_XY))

\* getScale answering 1 when the start pointers coincide.
getScaleGuarded(start, end) ==
    IF getDistance(start[1], start[2], PROPS_CLIENT_XY) = 0 THEN One
    ELSE Quotient(getDistance(end[1], end[2], PROPS_CLIENT_XY),
                  getDistance(start[1], start[2], PROPS_CLIENT_XY))

getScale(start, end) ==
    Quotient(getDistance(end[1], end[2], PROPS_CLIENT_XY),
             getDistance(start[1], start[2], PROPS_CLIENT_XY))

\* --------------------------------------------------- session snapshot ---
\* A reference to an array of pointer objects: either an array of its own,
\* created with the given elements, or the pointers array of the sample
\* object, which the adapter fills again for every event.
newArray(items) == [array |-> "new", items |-> items]

sampleArray == [array |-> "sample", items |-> <<>>]

\* The elements of the referenced array while the sample holds samplePointers.
elements(ref, samplePointers) ==
    IF ref.array = "new" THEN ref.items ELSE samplePointers

\* simpleCloneInputData keeping a reference to inputData.pointers instead of
\* copying the pointers.
simpleCloneInputDataShared(inputData) ==
    [tag |-> "object",
     timeStamp |-> inputData.srcEvent.timeStamp,
     pointers |-> sampleArray,
     center |-> getCenter(inputData.pointers)]

simpleCloneInputData(inputData) ==
    LET pointers == [i \in 1..Len(inputData.pointers) |->
                        [clientX |-> 2 * round(inputData.pointers[i].clientX, 2),
                         clientY |-> 2 * round(inputData.pointers[i].clientY, 2)]]
    IN  [tag |-> "object",
         timeStamp |-> inputData.srcEvent.timeStamp,
         pointers |-> newArray(pointers),
         center |-> getCenter(pointers)]

\* -------------------------------------------------- enrichment engine ---
\* An empty session object {}.
NewSession(id) ==
    [tag |-> "object", id |-> id, firstInput |-> Undefined, firstMultiple |-> Undefined]

\* storeFirstInput without its guard: every sample overwrites firstInput.
storeFirstInputAlways(sess, inputData) == simpleCloneInputData(inputData)

\* if(!session.firstInput) session.firstInput = simpleCloneInputData(inputData)
storeFirstInput(sess, inputData) ==
    IF ~Truthy(sess.firstInput)
    THEN simpleCloneInputData(inputData)
    ELSE sess.firstInput

\* storeFirstMultiple with the threshold off by one (pointersLength > 2).
storeFirstMultipleAboveTwo(sess, inputData) ==
    LET pointersLength == Len(inputData.pointers)
    IN  IF pointersLength > 2 /\ ~Truthy(sess.firstMultiple)
        THEN simpleCloneInputData(inputData)
        ELSE IF pointersLength = 1
             THEN False
             ELSE sess.firstMultiple

\* storeFirstMultiple testing for undefined instead of falsy: the false left
\* by a single-pointer sample is never replaced.
storeFirstMultipleUndefinedOnly(sess, inputData) ==
    LET pointersLength == Len(inputData.pointers)
    IN  IF pointersLength > 1 /\ sess.firstMultiple = Undefined
        THEN simpleCloneInputData(inputData)
        ELSE IF pointersLength = 1
             THEN False
             ELSE sess.firstMultiple

\* storeFirstMultiple that captures again whenever the pointer count differs
\* from the count of the stored snapshot.
storeFirstMultipleOnCountChange(sess, inputData) ==
    LET pointersLength == Len(inputData.pointers)
    IN  IF pointersLength > 1
           /\ (\/ ~Truthy(sess.firstMultiple)
               \/ Len(sess.firstMultiple.pointers.items) # pointersLength)
        THEN simpleCloneInputData(inputData)
        ELSE IF pointersLength = 1
             THEN False
             ELSE sess.firstMultiple


\* if(pointersLength > 1 && !session.firstMultiple) ... else if(pointersLength === 1) ...
storeFirstMultiple(sess, inputData) ==
    LET pointersLength == Len(inputData.pointers)
    IN  IF pointersLength > 1 /\ ~Truthy(sess.firstMultiple)
        THEN simpleCloneInputData(inputData)
        ELSE IF pointersLength = 1
             THEN False
             ELSE sess.firstMultiple

\* offsetCenter that ignores firstMultiple.
offsetCenterOfFirstInput(firstInput, firstMultiple) == firstInput.center

\* var offsetCenter = firstMultiple ? firstMultiple.center : firstInput.center
offsetCenterOf(firstInput, firstMultiple) ==
    IF Truthy(firstMultiple) THEN firstMultiple.center ELSE firstInput.center

\* inputData.scale = firstMultiple ? getScale(firstMultiple.pointers, pointers) : 1
\* with 0 as the default.
scaleOfDefaultZero(firstMultiple, pointers) ==
    IF Truthy(firstMultiple)
    THEN getScale(elements(firstMultiple.pointers, pointers), pointers)
    ELSE Quotient(0, 1)

\* inputData.scale = firstMultiple ? getScale(firstMultiple.pointers, pointers) : 1
scaleOf(firstMultiple, pointers) ==
    IF Truthy(firstMultiple)
    THEN getScale(elements(firstMultiple.pointers, pointers), pointers)
    ELSE One

\* inputData.rotation = firstMultiple ? getRotation(firstMultiple.pointers, pointers) : 0
rotationOf(firstMultiple, pointers) ==
    IF Truthy(firstMultiple)
    THEN getRotation(elements(firstMultiple.pointers, pointers), pointers)
    ELSE ZeroRotation

\* deltaTime measured from the baseline of the spatial fields.
deltaTimeOfOffset(timeStamp, firstInput, firstMultiple) ==
    IF Truthy(firstMultiple) THEN timeStamp - firstMultiple.timeStamp
    ELSE timeStamp - firstInput.timeStamp

\* inputData.deltaTime = inputData.timeStamp - firstInput.timeStamp
deltaTimeOf(timeStamp, firstInput, firstMultiple) ==
    timeStamp - firstInput.timeStamp

\* computeInputData(session, inputData): the session and the inputData
\* object as the call leaves them.
\* inputData.direction = getDirection(offsetCenter, center) with the two
\* arguments exchanged.
directionOfReversed(offsetCenter, center) == getDirection(center, offsetCenter)

\* inputData.direction = getDirection(offsetCenter, center)
directionOf(offsetCenter, center) == getDirection(offsetCenter, center)


computeInputData(sess, inputData) ==
    LET pointers == inputData.pointers
        firstInput == storeFirstInput(sess, inputData)
        sess1 == [sess EXCEPT !.firstInput = firstInput]
        firstMultiple == storeFirstMultiple(sess1, inputData)
        sess2 == [sess1 EXCEPT !.firstMultiple = firstMultiple]
        offsetCenter == offsetCenterOf(firstInput, firstMultiple)
        center == getCenter(pointers)
        timeStamp == inputData.srcEvent.timeStamp
    IN  [session |-> sess2,
         inputData |->
            [tag |-> "enriched",
             pointers |-> inputData.pointers,
             changedPointers |-> inputData.changedPointers,
             srcEvent |-> inputData.srcEvent,
             isFirst |-> inputData.isFirst,
             isFinal |-> inputData.isFinal,
             eventType |-> inputData.eventType,
             timeStamp |-> timeStamp,
             center |-> center,
             angle |-> getAngle(offsetCenter, center, PROPS_XY),
             distance |-> getDistance(offsetCenter, center, PROPS_XY),
             direction |-> directionOf(offsetCenter, center),
             velocity |-> Half,
             velocityX |-> Half,
             velocityY |-> Half,
             deltaTime |-> deltaTimeOf(timeStamp, firstInput, firstMultiple),
             deltaX |-> center.x - offsetCenter.x,
             deltaY |-> center.y - offsetCenter.y,
             scale |-> scaleOf(firstMultiple, pointers),
             rotation |-> rotationOf(firstMultiple, pointers)]]

\* ------------------------------------------ gesture lifecycle classifier ---
isFirstOf(eventType, pointersLen, changedPointersLen) ==
    eventType = EVENT_START /\ pointersLen - changedPointersLen = 0

\* isFinal that also treats cancel as an end.
isFinalOfEndOrCancel(eventType, pointersLen, changedPointersLen) ==
    eventType \in {EVENT_END, EVENT_CANCEL} /\ pointersLen - changedPointersLen = 0

isFinalOf(eventType, pointersLen, changedPointersLen) ==
    eventType = EVENT_END /\ pointersLen - changedPointersLen = 0

classify(eventType, pointersLen, changedPointersLen) ==
    [isFirst |-> isFirstOf(eventType, pointersLen, changedPointersLen),
     isFinal |-> isFinalOf(eventType, pointersLen, changedPointersLen)]

\* The reset without the isFirst test: every start replaces the session.
resetSessionOnStart(sess, eventType, isFirst, id) ==
    IF eventType = EVENT_START THEN NewSession(id) ELSE sess

\* The reset left out.
resetSessionNever(sess, eventType, isFirst, id) == sess

\* if(eventType === EVENT_START && inputData.isFirst) inst.session = {}
resetSession(sess, eventType, isFirst, id) ==
    IF eventType = EVENT_START /\ isFirst THEN NewSession(id) ELSE sess

\* The hand-off skipped on the final sample of a gesture.
updateUnlessFinal(inputData) == IF inputData.isFinal THEN <<>> ELSE <<inputData>>

\* inst.update(inputData): the invocations of inst.update made by one call.
update(inputData) == <<inputData>>

\* inputHandler(inst, eventType, inputData) for the raw sample
\* {pointers, changedPointers, srcEvent: {timeStamp: t}}.
\* Reading a property of an undefined session throws a TypeError out of
\* computeInputData: inst.update is then never reached.
inputHandler(eventType, pointers, changedPointers, t) ==
    LET pointersLen == Len(pointers)
        changedPointersLen == Len(changedPointers)
        isFirst == classify(eventType, pointersLen, changedPointersLen).isFirst
        isFinal == classify(eventType, pointersLen, changedPointersLen).isFinal
        sess == resetSession(session, eventType, isFirst, created + 1)
        inputData == [tag |-> "classified",
                      pointers |-> pointers,
                      changedPointers |-> changedPointers,
                      srcEvent |-> [timeStamp |-> t],
                      isFirst |-> isFirst,
                      isFinal |-> isFinal,
                      eventType |-> eventType]
        out == computeInputData(sess, inputData)
    IN  /\ created' = IF sess = session THEN created ELSE created + 1
        /\ IF Truthy(sess)
           THEN /\ session' = out.session
                /\ input' = out.inputData
                /\ delivered' = update(out.inputData)
                /\ error' = error
           ELSE /\ session' = sess
                /\ input' = inputData
                /\ delivered' = <<>>
                /\ error' = TRUE
        /\ multiSeen' = IF pointersLen = 1 THEN FALSE
                        ELSE IF pointersLen > 1 THEN TRUE
                        ELSE IF isFirst THEN FALSE ELSE multiSeen
        /\ hadMultiple' = IF isFirst THEN FALSE
                          ELSE (hadMultiple \/ Len(input.pointers) > 1)

\* ------------------------------------------------- input-source adapter ---
\* The two sample positions of a pointer: MaxCoord half pixels along either
\* axis (MaxCoord = 1: half a pixel off the pixel grid).
Points ==
    {[clientX |-> 0, clientY |-> MaxCoord], [clientX |-> MaxCoord, clientY |-> 0]}

Times == {t \in {time, time + 1} : t <= MaxTime}

\* The elements of seq at the positions in S, in order.
RECURSIVE Pick(_, _)
Pick(seq, S) ==
    IF seq = <<>> THEN <<>>
    ELSE LET rest == Pick(Tail(seq), {i - 1 : i \in S \ {1}})
         IN  IF 1 \in S THEN <<Head(seq)>> \o rest ELSE rest

Positions == 1..Len(down)

\* As with pointer events, one source event concerns one pointer: a move
\* changes the position of at most one pointer, an end or cancel lifts one.
Moves ==
    {now \in [Positions -> Points] :
        Cardinality({i \in Positions : now[i] # down[i]}) <= 1}

Lifts == {{i} : i \in Positions}

\* A pointer goes down; those already down keep their slots.
PointerStart ==
    /\ Len(down) < MaxPointers
    /\ Len(down) = 0 => created < MaxSessions
    /\ \E p \in Points, t \in Times :
          /\ down' = Append(down, p)
          /\ time' = t
          /\ inputHandler(EVENT_START, Append(down, p), <<p>>, t)
    /\ UNCHANGED call

\* A pointer moves; the changed pointers are those whose position differs.
PointerMove ==
    /\ Len(down) >= 1
    /\ \E now \in Moves, t \in Times :
          /\ down' = now
          /\ time' = t
          /\ inputHandler(EVENT_MOVE, now,
                          Pick(now, {i \in Positions : now[i] # down[i]}), t)
    /\ UNCHANGED call

\* A pointer is lifted; the sample still lists it.
PointerEnd ==
    /\ Len(down) >= 1
    /\ \E S \in Lifts, t \in Times :
          /\ down' = Pick(down, Positions \ S)
          /\ time' = t
          /\ inputHandler(EVENT_END, down, Pick(down, S), t)
    /\ UNCHANGED call

\* A pointer is cancelled by the platform; the sample still lists it.
PointerCancel ==
    /\ Len(down) >= 1
    /\ \E S \in Lifts, t \in Times :
          /\ down' = Pick(down, Positions \ S)
          /\ time' = t
          /\ inputHandler(EVENT_CANCEL, down, Pick(down, S), t)
    /\ UNCHANGED call

Init ==
    /\ down = <<>>
    /\ time = 0
    /\ session = Undefined
    /\ created = 0
    /\ input = NoInput
    /\ delivered = <<>>
    /\ error = FALSE
    /\ multiSeen = FALSE
    /\ hadMultiple = FALSE
    /\ call = NoCall

Next == PointerStart \/ PointerMove \/ PointerEnd \/ PointerCancel

Spec == Init /\ [][Next]_vars

\* ------------------------------------- the pure functions on their own ---
Grid == (-MaxGrid)..MaxGrid

Origins == (-MaxOrigin)..MaxOrigin

Kinds == {EVENT_START, EVENT_MOVE, EVENT_END, EVENT_CANCEL}

DirectionCall ==
    /\ call = NoCall
    /\ \E p1 \in [x : Origins, y : Origins], p2 \in [x : Grid, y : Grid] :
          call' = [fn |-> "getDirection", p1 |-> p1, p2 |-> p2,
                   result |-> getDirection(p1, p2)]
    /\ UNCHANGED gestureVars

ClassifyCall ==
    /\ call = NoCall
    /\ \E eventType \in Kinds, pointersLen \in 0..MaxLen, changedPointersLen \in 0..MaxLen :
          call' = [fn |-> "classify", eventType |-> eventType,
                   pointersLen |-> pointersLen,
                   changedPointersLen |-> changedPointersLen,
                   result |-> classify(eventType, pointersLen, changedPointersLen)]
    /\ UNCHANGED gestureVars

\* Pointer lists on and off the pixel grid (coordinates in half pixels).
CenterPoints == [clientX : (-MaxHalf)..MaxHalf, clientY : 0..MaxHalf]

CenterCall ==
    /\ call = NoCall
    /\ \E n \in 1..MaxPointers :
          \E pointers \in [1..n -> CenterPoints] :
             call' = [fn |-> "getCenter", pointers |-> pointers,
                      result |-> getCenter(pointers)]
    /\ UNCHANGED gestureVars

\* Pointer pairs for getScale: slot 1 near the origin, slot 2 near the
\* origin or MaxGrid or 2 * MaxGrid away, with or without a third pointer.
ScaleFirst == [clientX : Origins, clientY : {0}]

ScaleSecond == [clientX : Origins \cup {MaxGrid, 2 * MaxGrid}, clientY : Origins]

ScaleRest == {<<>>, <<[clientX |-> MaxGrid, clientY |-> MaxGrid]>>}

ScaleCall ==
    /\ call = NoCall
    /\ \E s1 \in ScaleFirst, s2 \in ScaleSecond, e1 \in ScaleFirst, e2 \in ScaleSecond,
          rest \in ScaleRest :
          call' = [fn |-> "getScale", start |-> <<s1, s2>> \o rest,
                   end |-> <<e1, e2>> \o rest,
                   result |-> getScale(<<s1, s2>> \o rest, <<e1, e2>> \o rest)]
    /\ UNCHANGED gestureVars

NextPure == DirectionCall \/ ClassifyCall \/ CenterCall \/ ScaleCall

SpecPure == Init /\ [][NextPure]_vars

\* ----------------------------------------------------------- properties ---
Enriched(i) == i.tag = "enriched"

\* C1: within one gesture session.firstInput is the snapshot of the sample
\* classified isFirst, and no later sample of the gesture, whatever its event
\* kind and pointer count, reassigns or clears it.
C1_FirstInputFixed ==
    [][~error' =>
         IF input'.isFirst
         THEN session'.firstInput = simpleCloneInputData(input')
         ELSE /\ Truthy(session'.firstInput)
              /\ session'.firstInput = session.firstInput]_vars

C1_Witness ==
    /\ Enriched(input)
    /\ ~input.isFirst
    /\ input.eventType = EVENT_CANCEL
    /\ Len(input.pointers) = 2
    /\ session.firstInput.timeStamp < input.timeStamp
    /\ session.firstInput.center # input.center

\* C2: after every enriched sample, firstMultiple is present exactly when the
\* gesture has seen a sample with 2 or more pointers since its latest sample
\* with exactly 1 pointer: absent after a 1-pointer sample, present after a
\* sample with 2 or more pointers.
C2_FirstMultiplePresence ==
    Enriched(input) =>
        /\ Truthy(session.firstMultiple) <=> multiSeen
        /\ Len(input.pointers) = 1 => ~Truthy(session.firstMultiple)
        /\ Len(input.pointers) >= 2 => Truthy(session.firstMultiple)

C2_Witness ==
    /\ Enriched(input)
    /\ hadMultiple
    /\ Len(input.pointers) = 1
    /\ session.firstMultiple = False

\* C3: inputHandler puts a new empty session object in inst.session exactly
\* when the sample is classified isFirst; every other sample (final, cancel,
\* start with a pointer already down) leaves the object and its firstInput
\* in place.
C3_ResetOnlyOnFirst ==
    [][~error' =>
         IF input'.isFirst
         THEN /\ created' = created + 1
              /\ session'.id = created'
              /\ session'.firstInput = simpleCloneInputData(input')
              /\ session'.firstMultiple \in {False, simpleCloneInputData(input')}
         ELSE /\ created' = created
              /\ session'.id = session.id
              /\ session'.firstInput = session.firstInput]_vars

C3_Witness ==
    /\ Enriched(input)
    /\ input.isFinal
    /\ session.id = 2
    /\ Truthy(session.firstInput)
    /\ session.firstInput.timeStamp < input.timeStamp

\* C4: isFirst is true exactly when the kind is start and the number of
\* active pointers equals the number of changed pointers, isFinal exactly
\* when the kind is end and the two are equal; a cancel or move sample has
\* neither, and no sample has both.
C4_Classification ==
    call.fn = "classify" =>
        /\ call.result.isFirst <=>
              (call.eventType = EVENT_START /\ call.pointersLen = call.changedPointersLen)
        /\ call.result.isFinal <=>
              (call.eventType = EVENT_END /\ call.pointersLen = call.changedPointersLen)
        /\ call.eventType \in {EVENT_MOVE, EVENT_CANCEL} =>
              (~call.result.isFirst /\ ~call.result.isFinal)
        /\ ~(call.result.isFirst /\ call.result.isFinal)

C4_Witness ==
    /\ call.fn = "classify"
    /\ call.eventType = EVENT_CANCEL
    /\ call.pointersLen = call.changedPointersLen
    /\ call.pointersLen = 2
    /\ ~call.result.isFinal

\* C5: on every sequence of samples the adapter contract allows, the session
\* is reset before enrichment, so computeInputData always finds a session
\* object and no call throws.
C5_NoError ==
    /\ ~error
    /\ input # NoInput => (Enriched(input) /\ Truthy(session))

C5_Witness ==
    /\ Enriched(input)
    /\ input.isFirst
    /\ created = 1
    /\ Truthy(session)

\* C6: deltaX and deltaY are the current center minus the offset center,
\* which is firstMultiple.center when firstMultiple is present after the
\* baseline update and firstInput.center otherwise; after a sample with
\* exactly 1 pointer they are measured from the gesture's first sample.
C6_Deltas ==
    Enriched(input) =>
        LET offset == IF Truthy(session.firstMultiple)
                      THEN session.firstMultiple.center
                      ELSE session.firstInput.center
        IN  /\ input.deltaX = input.center.x - offset.x
            /\ input.deltaY = input.center.y - offset.y
            /\ Len(input.pointers) = 1 =>
                  /\ input.deltaX = input.center.x - session.firstInput.center.x
                  /\ input.deltaY = input.center.y - session.firstInput.center.y

C6_Witness ==
    /\ Enriched(input)
    /\ Truthy(session.firstMultiple)
    /\ session.firstMultiple.center # session.firstInput.center
    /\ input.center # session.firstMultiple.center
    /\ input.deltaX # 0
    /\ input.deltaY # 0

\* C7: whenever firstMultiple is absent after the baseline update, and so on
\* every sample with exactly one pointer, scale is exactly 1 and rotation is
\* exactly 0, also after multi-pointer samples earlier in the gesture.
C7_IdentityScaleRotation ==
    Enriched(input) =>
        /\ ~Truthy(session.firstMultiple) =>
              (input.scale = One /\ input.rotation = ZeroRotation)
        /\ Len(input.pointers) = 1 =>
              (input.scale = One /\ input.rotation = ZeroRotation)

C7_Witness ==
    /\ Enriched(input)
    /\ hadMultiple
    /\ Len(input.pointers) = 1
    /\ input.scale = One
    /\ input.rotation = ZeroRotation

\* C8: when the pointer count of a gesture goes from 2 or more to exactly 1
\* and up to 2 or more again, the firstMultiple in effect after the second
\* rise is the snapshot of the sample at the second rise.
C8_NewBaselineAfterDip ==
    [][(/\ Enriched(input)
        /\ hadMultiple
        /\ Len(input.pointers) = 1
        /\ ~error'
        /\ ~input'.isFirst
        /\ Len(input'.pointers) >= 2)
       => session'.firstMultiple = simpleCloneInputData(input')]_vars

C8_Witness ==
    /\ Enriched(input)
    /\ hadMultiple
    /\ input.eventType = EVENT_START
    /\ ~input.isFirst
    /\ Len(input.pointers) = 2
    /\ Truthy(session.firstMultiple)
    /\ session.firstMultiple.timeStamp = input.timeStamp
    /\ session.firstMultiple.timeStamp > session.firstInput.timeStamp

\* C9: every inputHandler call invokes inst.update exactly once, with the
\* sample it has classified and enriched, before the next event is taken.
C9_OneUpdatePerEvent ==
    [][/\ Len(delivered') = 1
       /\ delivered'[1] = input'
       /\ Enriched(input')
       /\ input'.eventType \in Kinds
       /\ input'.srcEvent.timeStamp = time'
       /\ input'.isFirst \in BOOLEAN]_vars

C9_Witness ==
    /\ delivered = <<input>>
    /\ Enriched(input)
    /\ input.isFinal
    /\ created = 2

C11_Center ==
    call.fn = "getCenter" =>
        LET ps == call.pointers
            n == Len(ps)
            c == call.result
            \* r is v / d pixels rounded: r - 1/2 <= v / d < r + 1/2
            Rounds(r, v, d) == 2 * d * r - d <= 2 * v /\ 2 * v < 2 * d * r + d
        IN  /\ n = 1 => /\ Rounds(c.x, ps[1].clientX, 2)
                        /\ Rounds(c.y, ps[1].clientY, 2)
            /\ n > 1 =>
                  \E i, j, k, l \in 1..n :
                     /\ \A m \in 1..n : /\ ps[i].clientX <= ps[m].clientX
                                         /\ ps[m].clientX <= ps[j].clientX
                                         /\ ps[k].clientY <= ps[m].clientY
                                         /\ ps[m].clientY <= ps[l].clientY
                     /\ Rounds(c.x, ps[i].clientX + ps[j].clientX, 4)
                     /\ Rounds(c.y, ps[k].clientY + ps[l].clientY, 4)
            /\ \A f \in Permutations(1..n) :
                  getCenter([m \in 1..n |-> ps[f[m]]]) = c

C11_Witness ==
    /\ call.fn = "getCenter"
    /\ Len(call.pointers) = 3
    /\ call.pointers[1].clientX = 1
    /\ call.pointers[2].clientX = -1
    /\ call.pointers[3].clientX = 0
    /\ call.pointers[1].clientY = 1
    /\ call.pointers[2].clientY = 0
    /\ call.pointers[3].clientY = 1
    /\ call.result = [x |-> 0, y |-> 0]

\* C12: a stored baseline holds copies of the rounded pointer coordinates,
\* its center and its timestamp: when the adapter fills the sample object
\* for a later event, what firstInput and firstMultiple hold stays the same,
\* and the sample's pointers and changedPointers arrays come out of
\* computeInputData as the adapter filled them.
Rounded(pointers) ==
    [i \in 1..Len(pointers) |->
        [clientX |-> 2 * ((pointers[i].clientX + 1) \div 2),
         clientY |-> 2 * ((pointers[i].clientY + 1) \div 2)]]

Held(snapshot, samplePointers) ==
    [timeStamp |-> snapshot.timeStamp,
     pointers |-> elements(snapshot.pointers, samplePointers),
     center |-> snapshot.center]

C12_SnapshotIsolated ==
    [][~error' =>
         /\ input'.pointers = IF input'.eventType \in {EVENT_START, EVENT_MOVE}
                              THEN down' ELSE down
         /\ Len(input'.changedPointers) <= 1
         /\ \A i \in 1..Len(input'.changedPointers) :
               \E j \in 1..Len(input'.pointers) :
                  input'.changedPointers[i] = input'.pointers[j]
         /\ input'.isFirst =>
               /\ Held(session'.firstInput, input'.pointers).pointers = Rounded(input'.pointers)
               /\ session'.firstInput.timeStamp = time'
         /\ (~input'.isFirst /\ Truthy(session.firstInput)) =>
               Held(session'.firstInput, input'.pointers)
                  = Held(session.firstInput, input.pointers)
         /\ (~input'.isFirst /\ Truthy(session.firstMultiple) /\ Len(input'.pointers) > 1) =>
               Held(session'.firstMultiple, input'.pointers)
                  = Held(session.firstMultiple, input.pointers)
         /\ (~input'.isFirst /\ ~Truthy(session.firstMultiple) /\ Len(input'.pointers) > 1) =>
               Held(session'.firstMultiple, input'.pointers).pointers
                  = Rounded(input'.pointers)]_vars

C12_Witness ==
    /\ Enriched(input)
    /\ Truthy(session.firstMultiple)
    /\ Len(input.pointers) = 2
    /\ input.eventType = EVENT_MOVE
    /\ Len(input.changedPointers) = 1
    /\ Held(session.firstMultiple, input.pointers).pointers # Rounded(input.pointers)
    /\ Held(session.firstInput, input.pointers).pointers # Rounded(<<input.pointers[1]>>)

\* C13: deltaTime is the sample's timestamp minus the timestamp of the
\* gesture's firstInput, also while firstMultiple is the baseline of the
\* spatial fields; it is never negative and it is 0 on the isFirst sample.
C13_DeltaTime ==
    Enriched(input) =>
        /\ input.timeStamp = time
        /\ input.deltaTime = time - session.firstInput.timeStamp
        /\ input.deltaTime >= 0
        /\ input.isFirst => input.deltaTime = 0

C13_Witness ==
    /\ Enriched(input)
    /\ Truthy(session.firstMultiple)
    /\ session.firstMultiple.timeStamp > session.firstInput.timeStamp
    /\ input.timeStamp = session.firstMultiple.timeStamp
    /\ input.deltaTime = 1

\* C14: when the first two pointers stored in firstMultiple have the same
\* rounded coordinates, the division in getScale is not guarded: the scale of
\* the enriched sample is non-finite (NaN or Infinity), not 1.
C14_UnguardedScale ==
    (/\ Enriched(input)
     /\ Truthy(session.firstMultiple)
     /\ session.firstMultiple.pointers.items[1] = session.firstMultiple.pointers.items[2])
    => /\ ~IsFinite(input.scale)
       /\ input.scale \in {NaN, Infinity}
       /\ input.scale # One

C14_Witness ==
    /\ Enriched(input)
    /\ Truthy(session.firstMultiple)
    /\ session.firstMultiple.pointers.items[1] = session.firstMultiple.pointers.items[2]
    /\ input.pointers[1] # input.pointers[2]
    /\ input.scale = Infinity

\* C15: getScale compares the first two pointers of each set: it is 1 when
\* start and end are the same pair with non-zero separation and 2 when the
\* distance of the end pair is exactly double that of the start pair, as for
\* (0,0),(10,0) against (0,0),(20,0).
C15_Scale ==
    call.fn = "getScale" =>
        LET Sq(p, q) == (q.clientX - p.clientX) * (q.clientX - p.clientX)
                        + (q.clientY - p.clientY) * (q.clientY - p.clientY)
            ds == Sq(call.start[1], call.start[2])
            de == Sq(call.end[1], call.end[2])
        IN  /\ (ds # 0 /\ call.start[1] = call.end[1] /\ call.start[2] = call.end[2])
                  => call.result = One
            /\ (ds # 0 /\ de = 4 * ds) => call.result = Two
            /\ (ds # 0 /\ call.result = One) => de = ds
            /\ (ds # 0 /\ call.result = Two) => de = 4 * ds

C15_Witness ==
    /\ call.fn = "getScale"
    /\ call.start = <<[clientX |-> 0, clientY |-> 0], [clientX |-> 10, clientY |-> 0]>>
    /\ call.end = <<[clientX |-> 0, clientY |-> 0], [clientX |-> 20, clientY |-> 0]>>
    /\ call.result = Two

\* C16: getDirection returns the no-direction value only when the two
\* positions are equal: for every p1 different from p2 the result is one of
\* left, right, up, down.
C16_NoneOnlyWhenEqual ==
    (call.fn = "getDirection" /\ call.p1 # call.p2)
    => call.result \in {DIRECTION_LEFT, DIRECTION_RIGHT, DIRECTION_UP, DIRECTION_DOWN}

\* C17: once firstMultiple is captured it keeps the same timestamp, pointer
\* list and center across every later sample with two or more pointers, also
\* when the count changes between such values; it changes only on a sample
\* with exactly one pointer or on a session reset.
C17_FirstMultipleFixed ==
    [][(/\ ~error'
        /\ Truthy(session)
        /\ Truthy(session.firstMultiple))
       => /\ (~input'.isFirst /\ Len(input'.pointers) >= 2)
             => /\ session'.firstMultiple = session.firstMultiple
                /\ session'.firstMultiple.timeStamp = session.firstMultiple.timeStamp
                /\ session'.firstMultiple.pointers = session.firstMultiple.pointers
                /\ session'.firstMultiple.center = session.firstMultiple.center
          /\ session'.firstMultiple # session.firstMultiple
             => (input'.isFirst \/ Len(input'.pointers) = 1)]_vars

C17_Witness ==
    /\ Enriched(input)
    /\ ~input.isFirst
    /\ Len(input.pointers) = 3
    /\ Truthy(session.firstMultiple)
    /\ Len(session.firstMultiple.pointers.items) = 2
    /\ session.firstMultiple.timeStamp < input.timeStamp

\* C18: a sample measured against a baseline captured from that same sample
\* reports no change: on every isFirst sample and on every sample that
\* captures firstMultiple, deltaX = deltaY = 0, and scale = 1 when
\* firstMultiple is present with non-zero pointer separation, whatever the
\* pointer coordinates, fractional ones included.
C18_NoChangeAtCapture ==
    Enriched(input) =>
        /\ input.isFirst => (input.deltaX = 0 /\ input.deltaY = 0)
        /\ (/\ Truthy(session.firstMultiple)
            /\ session.firstMultiple = simpleCloneInputData(input))
           => /\ input.deltaX = 0
              /\ input.deltaY = 0
              /\ getDistance(session.firstMultiple.pointers.items[1],
                             session.firstMultiple.pointers.items[2],
                             PROPS_CLIENT_XY) # 0
                 => input.scale = One

=============================================================================
